---- MODULE Spec2Model ----
(***************************************************************************)
(* The resilient request layer of the Proxycurl MCP server:                *)
(*   - the retry loop makeRequestWithRetry with isRetryableError           *)
(*     (src/test-retry-logic.js, src/test-mcp-search-debug.js);            *)
(*   - the pagination cursor nextPageSearchPeopleUrl of ProxycurlClient    *)
(*     and the operations search_people / reset_search_state that use it   *)
(*     (src/server.js).                                                    *)
(* JavaScript values are modelled as strings and numbers: null is "null",  *)
(* undefined is "undefined"; a description string is a sequence of words.  *)
(***************************************************************************)
EXTENDS Integers, Sequences, FiniteSets, TLC

\* ------------------------------------------------------------------ bounds
MaxRetriesBound == 3    \* maxRetries arguments tried: 0 .. MaxRetriesBound
MaxDescLen == 4         \* longest response description, in words
NumCalls == 2           \* tool calls that can be in flight at once
MaxAttemptNumber == 8   \* attempt numbers given to calculateRetryDelay: 1 .. 8
JitterSteps == 4        \* Math.random() takes the values r / JitterSteps, r < JitterSteps
NumInvocations == 2     \* makeRequestWithRetry invocations started together
MaxHttpStatus == 520    \* statuses given to getMcpErrorCode: 390 .. MaxHttpStatus

\* --------------------------------------------------------- program constants
DefaultMaxRetries == 3
BaseDelayMs == 1000
RateLimitBaseDelayMs == 5000
MaxDelayMs == 30000

NULL == "null"
Undefined == "undefined"

\* ------------------------------------------------------------------ failures
\* error.response.status values the claims name, and one unlisted 5xx / 4xx.
Statuses == {400, 401, 403, 404, 422, 429, 500, 501, 502, 503, 504}

\* Words of a description; "not" is the lower-case variant of "Not".
DescWords == {"Not", "not", "enough", "credits", "x"}

NotEnoughCredits == <<"Not", "enough", "credits">>

SeqsUpTo(S, n) == UNION {[1..k -> S] : k \in 0..n}

Descriptions == SeqsUpTo(DescWords, MaxDescLen)

\* An axios error: no response at all, or a response with a status and a
\* body whose description is a string or is missing.
\* (error.response is missing; or data.description is missing: hasDescription
\* is FALSE and description is unused.)
NetworkError ==
  [hasResponse |-> FALSE, status |-> Undefined, hasDescription |-> FALSE, description |-> <<>>]

HttpError(s, d) ==
  [hasResponse |-> TRUE, status |-> s, hasDescription |-> TRUE, description |-> d]

HttpErrorNoDescription(s) ==
  [hasResponse |-> TRUE, status |-> s, hasDescription |-> FALSE, description |-> <<>>]

Failures ==
  {NetworkError}
    \cup {HttpError(s, d) : s \in Statuses, d \in Descriptions}
    \cup {HttpErrorNoDescription(s) : s \in Statuses}

\* String.prototype.includes: needle occurs as a contiguous part of hay.
Includes(hay, needle) ==
  \E i \in 0..(Len(hay) - Len(needle)) :
    \A j \in 1..Len(needle) : hay[i + j] = needle[j]

RetryableStatuses == {429, 500, 502, 503, 504}

\* description?.includes('Not enough credits') with optional chaining.
DescriptionIncludesCredits(error) ==
  IF ~error.hasDescription THEN FALSE ELSE Includes(error.description, NotEnoughCredits)

\* Faulty variant: every 5xx status is retried.
isRetryableError_AllServerErrors(error) ==
  IF ~error.hasResponse THEN TRUE
  ELSE IF error.status = 429 \/ error.status >= 500 THEN TRUE
  ELSE IF error.status = 403 /\ DescriptionIncludesCredits(error) THEN TRUE
  ELSE FALSE

isRetryableError(error) ==
  IF ~error.hasResponse THEN TRUE
  ELSE IF error.status \in RetryableStatuses THEN TRUE
  ELSE IF error.status = 403 /\ DescriptionIncludesCredits(error) THEN TRUE
  ELSE FALSE

\* ------------------------------------------------------------------- state
VARIABLES
  cError,      \* isRetryableError: the error passed in
  cReturned,   \* isRetryableError: whether it has returned
  cResult,     \* isRetryableError: the boolean returned
  maxRetries,  \* makeRequestWithRetry: the maxRetries argument
  attempt,     \* makeRequestWithRetry: the loop variable
  pc,          \* makeRequestWithRetry: where the invocation is
  attempts,    \* number of axiosInstance.get calls the invocation has made
  waits,       \* number of backoff waits the invocation has completed
  outcomes,    \* the outcomes of the attempts made so far, in order
  thrown,      \* the error the invocation re-threw
  nextPageSearchPeopleUrl,  \* ProxycurlClient: the pagination cursor
  call,        \* the search_people tool calls in flight, per handler slot
  log,         \* the last two completed tool calls, oldest first
  returned,    \* makeRequestWithRetry: the attempt whose response it returned, 0 if none
  dAttempt,    \* calculateRetryDelay: the attempt argument
  dStatus,     \* calculateRetryDelay: the statusCode argument, <<>> if undefined
  dRandom,     \* calculateRetryDelay: the value Math.random() gives, in 1/JitterSteps
  dReturned,   \* calculateRetryDelay: whether it has returned
  dDelay,      \* calculateRetryDelay: the delay returned, in 1/DelayScale ms
  delay,       \* makeRequestWithRetry: the delay of its last wait, in 1/DelayScale ms
  pool,        \* the makeRequestWithRetry invocations started together
  statusArg,  \* getMcpErrorCode: the httpStatus argument, 0 if it is missing
  mcpCode      \* getMcpErrorCode: the code returned, "pending" before

classifyVars == <<cError, cReturned, cResult>>

retryVars == <<maxRetries, attempt, pc, attempts, waits, outcomes, thrown, returned, delay>>

searchVars == <<nextPageSearchPeopleUrl, call, log>>

delayVars == <<dAttempt, dStatus, dRandom, dReturned, dDelay>>

poolVars == <<pool>>

codeVars == <<statusArg, mcpCode>>

vars == <<classifyVars, retryVars, searchVars, delayVars, poolVars, codeVars>>

\* --------------------------------------------------- the pagination cursor
Calls == 1..NumCalls

Urls == {"urlA", "urlB"}

SearchEndpoint == "/v2/search/person"

\* What response.data.next_page can be: a URL, "", null or missing.
NextPageValues == Urls \cup {"", NULL, Undefined}

\* The search filters a caller supplies: none, one field, two fields.
NoFilters == <<>>

Filters ==
  { NoFilters,
    [f \in {"country"} |-> "US"],
    [f \in {"country", "headline"} |-> IF f = "country" THEN "DE" ELSE "ceo"] }

\* The arguments of a search_people tool call: the filters, and get_next_page
\* with value g unless it is missing.
Params(g, filters) ==
  [k \in (DOMAIN filters) \cup (IF g = Undefined THEN {} ELSE {"get_next_page"}) |->
     IF k = "get_next_page" THEN g ELSE filters[k]]

\* The sessions tool calls come from.
Sessions == {"A", "B"}

\* axiosInstance.get(url, { params }): the URL and the query parameters.
Request(url, query) == [url |-> url, query |-> query]

NoRequest == Request(NULL, NoFilters)

Idle ==
  [ pc |-> "idle", nextPageUrl |-> NULL, before |-> NULL, mid |-> NULL, racedBy |-> {},
    session |-> "A", params |-> NoFilters, request |-> NoRequest, tool |-> "none" ]

\* new ProxycurlClient(apiKey): this.nextPageSearchPeopleUrl = null
SearchIdle ==
  /\ nextPageSearchPeopleUrl = NULL
  /\ call = [c \in Calls |-> Idle]
  /\ log = <<>>

\* --------------------------------------------- isRetryableError on its own
ClassifyIdle == cError = NetworkError /\ cReturned = FALSE /\ cResult = FALSE

RetryIdle ==
  /\ maxRetries = 0
  /\ attempt = 0
  /\ pc = "idle"
  /\ attempts = 0
  /\ waits = 0
  /\ outcomes = <<>>
  /\ thrown = NetworkError
  /\ returned = 0
  /\ delay = 0

\* --------------------------------- makeRequestWithRetry, several at a time
Invocations == 1..NumInvocations

NotStarted == [pc |-> "idle", attempt |-> 0]

PoolIdle == pool = [i \in Invocations |-> NotStarted]

CodeIdle == statusArg = 0 /\ mcpCode = "pending"

DelayIdle ==
  /\ dAttempt = 1
  /\ dStatus = <<>>
  /\ dRandom = 0
  /\ dReturned = FALSE
  /\ dDelay = 0

InitClassify ==
  /\ cError \in Failures
  /\ cReturned = FALSE
  /\ cResult = FALSE
  /\ RetryIdle
  /\ SearchIdle
  /\ DelayIdle
  /\ PoolIdle
  /\ CodeIdle

Classify ==
  /\ ~cReturned
  /\ cReturned' = TRUE
  /\ cResult' = isRetryableError(cError)
  /\ UNCHANGED <<cError, retryVars, searchVars, delayVars, poolVars, codeVars>>

NextClassify == Classify

SpecClassify == InitClassify /\ [][NextClassify]_vars

\* ------------------------------------------------------ calculateRetryDelay
\* error.response?.status as passed to calculateRetryDelay: <<s>>, or <<>>
\* when there is no response (undefined).
OptionalStatus(e) == IF e.hasResponse THEN <<e.status>> ELSE <<>>

DelayStatuses == {<<>>} \cup {<<st>> : st \in Statuses}

\* Delays are exact rationals kept as integers: a delay of d milliseconds is
\* the number d * DelayScale, and Math.random() = r / JitterSteps.
DelayScale == 8 * JitterSteps

Ms(d) == d * DelayScale

RECURSIVE Pow2(_)
Pow2(n) == IF n <= 0 THEN 1 ELSE 2 * Pow2(n - 1)

Min(a, b) == IF a <= b THEN a ELSE b

\* Faulty variant: the jitter spans +-25% of the base delay.
calculateRetryDelay_WideJitter(a, statusCode, r) ==
  LET baseDelay == IF statusCode = <<429>>
                     THEN Pow2(a - 1) * RateLimitBaseDelayMs
                     ELSE Pow2(a - 1) * BaseDelayMs
      jitter == 2 * baseDelay * (2 * r - JitterSteps)
  IN Min(Ms(baseDelay) + jitter, Ms(MaxDelayMs))

\* Faulty variant: a 429 gets the base delay of the other failures.
calculateRetryDelay_NoRateLimitBase(a, statusCode, r) ==
  LET baseDelay == Pow2(a - 1) * BaseDelayMs
      jitter == baseDelay * (2 * r - JitterSteps)
  IN Min(Ms(baseDelay) + jitter, Ms(MaxDelayMs))

\* Faulty variant: the delay is not capped.
calculateRetryDelay_NoCap(a, statusCode, r) ==
  LET baseDelay == IF statusCode = <<429>>
                     THEN Pow2(a - 1) * RateLimitBaseDelayMs
                     ELSE Pow2(a - 1) * BaseDelayMs
      jitter == baseDelay * (2 * r - JitterSteps)
  IN Ms(baseDelay) + jitter

\* Faulty variant: the base delay does not grow with the attempt number.
calculateRetryDelay_NoGrowth(a, statusCode, r) ==
  LET baseDelay == IF statusCode = <<429>> THEN RateLimitBaseDelayMs ELSE BaseDelayMs
      jitter == baseDelay * (2 * r - JitterSteps)
  IN Min(Ms(baseDelay) + jitter, Ms(MaxDelayMs))

\* calculateRetryDelay(attempt, statusCode) with Math.random() = r / JitterSteps:
\*   jitter = baseDelay * 0.25 * (random - 0.5)
\*          = baseDelay * (2 r - JitterSteps) / (8 JitterSteps)
\*   return Math.min(baseDelay + jitter, 30000)
calculateRetryDelay(a, statusCode, r) ==
  LET baseDelay == IF statusCode = <<429>>
                     THEN Pow2(a - 1) * RateLimitBaseDelayMs
                     ELSE Pow2(a - 1) * BaseDelayMs
      jitter == baseDelay * (2 * r - JitterSteps)
  IN Min(Ms(baseDelay) + jitter, Ms(MaxDelayMs))

\* ------------------------------------------------------ makeRequestWithRetry
\* The failures an attempt is given in the retry loop: one of each kind.
RetryErrors ==
  { NetworkError,
    HttpErrorNoDescription(429),
    HttpErrorNoDescription(500),
    HttpErrorNoDescription(404),
    HttpError(403, NotEnoughCredits),
    HttpError(403, <<"not", "enough", "credits">>) }

Succeeded(n) == [ok |-> TRUE, error |-> NetworkError, n |-> n]

Failed(e, n) == [ok |-> FALSE, error |-> e, n |-> n]

\* The values of Math.random(), in 1/JitterSteps.
Randoms == 0..(JitterSteps - 1)

\* const delay = this.calculateRetryDelay(attempt, error.response?.status);
\* Faulty variant: the status of the failure is not passed on.
RetryDelay_NoStatus(a, e, r) == calculateRetryDelay(a, <<>>, r)

RetryDelay(a, e, r) == calculateRetryDelay(a, OptionalStatus(e), r)

\* for (...; attempt <= maxRetries + 1; ...)
\* Faulty variant: the loop ends one iteration early.
LoopCondition_OneShort(a, mr) == a <= mr

LoopCondition(a, mr) == a <= mr + 1

\* const isLastAttempt = attempt > maxRetries;
\* Faulty variant: gives up one attempt early.
isLastAttempt_OneEarly(a, mr) == a >= mr

isLastAttempt(a, mr) == a > mr

\* if (isRetryableError && !isLastAttempt) { wait; continue }
\* Faulty variant: retries whatever the failure is.
ShouldRetry_IgnoreClass(retryable, last) == ~last

\* Faulty variant: a retryable failure is waited on after the last attempt too.
ShouldRetry_WaitsAfterLast(retryable, last) == retryable

ShouldRetry(retryable, last) == retryable /\ ~last

\* The terminal state a re-thrown error ends in: "Max retries exceeded" is
\* logged exactly when isLastAttempt && isRetryableError.
FailureState(retryable, last) ==
  IF last /\ retryable THEN "FailedExhausted" ELSE "FailedNonRetryable"

Terminal == {"Succeeded", "FailedNonRetryable", "FailedExhausted", "FellOut"}

InitRetry ==
  /\ ClassifyIdle
  /\ RetryIdle
  /\ SearchIdle
  /\ DelayIdle
  /\ PoolIdle
  /\ CodeIdle

\* The call: the loop starts at attempt 1 and the first request is issued.
Invoke(mr) ==
  /\ pc = "idle"
  /\ maxRetries' = mr
  /\ attempt' = 1
  /\ IF LoopCondition(1, mr)
       THEN pc' = "awaiting" /\ attempts' = attempts + 1
       ELSE pc' = "FellOut" /\ attempts' = attempts
  /\ UNCHANGED <<waits, outcomes, thrown, returned, delay, classifyVars, searchVars, delayVars, poolVars, codeVars>>

\* Faulty variant: the response is not returned and the loop goes on.
AttemptSucceeds_KeepsLooping ==
  /\ pc = "awaiting"
  /\ outcomes' = Append(outcomes, Succeeded(attempt))
  /\ attempt' = attempt + 1
  /\ IF LoopCondition(attempt + 1, maxRetries)
       THEN pc' = "awaiting" /\ attempts' = attempts + 1
       ELSE pc' = "FellOut" /\ attempts' = attempts
  /\ UNCHANGED <<maxRetries, waits, thrown, returned, delay, classifyVars, searchVars, delayVars, poolVars, codeVars>>

\* await axiosInstance.get resolves: return response.
AttemptSucceeds ==
  /\ pc = "awaiting"
  /\ pc' = "Succeeded"
  /\ outcomes' = Append(outcomes, Succeeded(attempt))
  /\ returned' = attempt
  /\ UNCHANGED <<maxRetries, attempt, attempts, waits, thrown, delay, classifyVars, searchVars, delayVars, poolVars, codeVars>>

\* Faulty variant: the error re-thrown is the one of the first failed attempt.
AttemptFails_ThrowsFirst(e, r) ==
  /\ pc = "awaiting"
  /\ outcomes' = Append(outcomes, Failed(e, attempt))
  /\ LET retryable == isRetryableError(e)
         last == isLastAttempt(attempt, maxRetries)
     IN IF ShouldRetry(retryable, last)
          THEN pc' = "backoff" /\ thrown' = thrown /\ delay' = RetryDelay(attempt, e, r)
          ELSE /\ pc' = FailureState(retryable, last)
               /\ thrown' = outcomes'[1].error
               /\ delay' = delay
  /\ UNCHANGED <<maxRetries, attempt, attempts, waits, returned, classifyVars, searchVars, delayVars, poolVars, codeVars>>

\* Faulty variant: the class and the status of the first failure of the
\* invocation are used for every later failure.
AttemptFails_FirstFailureDecides(e, r) ==
  /\ pc = "awaiting"
  /\ outcomes' = Append(outcomes, Failed(e, attempt))
  /\ LET retryable == isRetryableError(outcomes'[1].error)
         last == isLastAttempt(attempt, maxRetries)
     IN IF ShouldRetry(retryable, last)
          THEN /\ pc' = "backoff"
               /\ thrown' = thrown
               /\ delay' = RetryDelay(attempt, outcomes'[1].error, r)
          ELSE pc' = FailureState(retryable, last) /\ thrown' = e /\ delay' = delay
  /\ UNCHANGED <<maxRetries, attempt, attempts, waits, returned, classifyVars, searchVars, delayVars, poolVars, codeVars>>

\* await axiosInstance.get rejects with error e: the catch block; r is the
\* value Math.random() gives in calculateRetryDelay, in 1/JitterSteps.
AttemptFails(e, r) ==
  /\ pc = "awaiting"
  /\ outcomes' = Append(outcomes, Failed(e, attempt))
  /\ LET retryable == isRetryableError(e)
         last == isLastAttempt(attempt, maxRetries)
     IN IF ShouldRetry(retryable, last)
          THEN pc' = "backoff" /\ thrown' = thrown /\ delay' = RetryDelay(attempt, e, r)
          ELSE pc' = FailureState(retryable, last) /\ thrown' = e /\ delay' = delay
  /\ UNCHANGED <<maxRetries, attempt, attempts, waits, returned, classifyVars, searchVars, delayVars, poolVars, codeVars>>

\* Faulty variant: the retry does not advance the attempt number.
BackoffDone_NoIncrement ==
  /\ pc = "backoff"
  /\ waits' = waits + 1
  /\ attempt' = attempt
  /\ pc' = "awaiting"
  /\ attempts' = attempts + 1
  /\ UNCHANGED <<maxRetries, outcomes, thrown, returned, delay, classifyVars, searchVars, delayVars, poolVars, codeVars>>

\* The setTimeout promise resolves: continue, attempt++, loop test, next get.
BackoffDone ==
  /\ pc = "backoff"
  /\ waits' = waits + 1
  /\ attempt' = attempt + 1
  /\ IF LoopCondition(attempt + 1, maxRetries)
       THEN pc' = "awaiting" /\ attempts' = attempts + 1
       ELSE pc' = "FellOut" /\ attempts' = attempts
  /\ UNCHANGED <<maxRetries, outcomes, thrown, returned, delay, classifyVars, searchVars, delayVars, poolVars, codeVars>>

NextRetry ==
  \/ \E mr \in 0..MaxRetriesBound : Invoke(mr)
  \/ AttemptSucceeds
  \/ \E e \in RetryErrors, r \in Randoms : AttemptFails(e, r)
  \/ BackoffDone

SpecRetry == InitRetry /\ [][NextRetry]_vars

\* The event loop runs every timer that is due, so a backoff wait ends; the
\* axios instance is created with no timeout, so nothing in the program ends
\* a request the remote service does not answer.
SpecRetryTimers == SpecRetry /\ WF_vars(BackoffDone)

\* The remote service answers every request.
AttemptCompletes == AttemptSucceeds \/ \E e \in RetryErrors, r \in Randoms : AttemptFails(e, r)

SpecRetryAnswered == SpecRetry /\ WF_vars(BackoffDone) /\ WF_vars(AttemptCompletes)

\* ------------------------------- makeRequestWithRetry invocations together
\* promises.push(client.makeRequestWithRetry(url, params)): the invocations
\* are started without awaiting one another, each with the default
\* maxRetries; each is at an await (its request, its backoff timer) or done.
PoolErrors == {HttpErrorNoDescription(429), HttpErrorNoDescription(404)}

\* await axiosInstance.get(...) and await new Promise(resolve =>
\* setTimeout(resolve, delay)) suspend the invocation and give control back
\* to the event loop: what the other invocations wait for does not hold
\* invocation i back.
\* Faulty variant: the backoff is a sleep that keeps the thread.
SuspensionYields_SleepBlocks(i) ==
  \A j \in Invocations \ {i} : pool[j].pc # "backoff"

SuspensionYields(i) == TRUE

PoolInvoke(i) ==
  /\ pool[i].pc = "idle"
  /\ SuspensionYields(i)
  /\ pool' = [pool EXCEPT ![i] =
       IF LoopCondition(1, DefaultMaxRetries)
         THEN [pc |-> "awaiting", attempt |-> 1]
         ELSE [pc |-> "FellOut", attempt |-> 1]]
  /\ UNCHANGED <<classifyVars, retryVars, searchVars, delayVars, codeVars>>

PoolAttemptSucceeds(i) ==
  /\ pool[i].pc = "awaiting"
  /\ SuspensionYields(i)
  /\ pool' = [pool EXCEPT ![i].pc = "Succeeded"]
  /\ UNCHANGED <<classifyVars, retryVars, searchVars, delayVars, codeVars>>

PoolAttemptFails(i, e) ==
  /\ pool[i].pc = "awaiting"
  /\ SuspensionYields(i)
  /\ LET retryable == isRetryableError(e)
         last == isLastAttempt(pool[i].attempt, DefaultMaxRetries)
     IN pool' = [pool EXCEPT ![i].pc =
          IF ShouldRetry(retryable, last)
            THEN "backoff"
            ELSE FailureState(retryable, last)]
  /\ UNCHANGED <<classifyVars, retryVars, searchVars, delayVars, codeVars>>

PoolBackoffDone(i) ==
  /\ pool[i].pc = "backoff"
  /\ SuspensionYields(i)
  /\ pool' = [pool EXCEPT ![i] =
       IF LoopCondition(pool[i].attempt + 1, DefaultMaxRetries)
         THEN [pc |-> "awaiting", attempt |-> pool[i].attempt + 1]
         ELSE [pc |-> "FellOut", attempt |-> pool[i].attempt + 1]]
  /\ UNCHANGED <<classifyVars, retryVars, searchVars, delayVars, codeVars>>

InitPool ==
  /\ ClassifyIdle
  /\ RetryIdle
  /\ SearchIdle
  /\ DelayIdle
  /\ PoolIdle
  /\ CodeIdle

NextPool ==
  \E i \in Invocations :
    \/ PoolInvoke(i)
    \/ PoolAttemptSucceeds(i)
    \/ \E e \in PoolErrors : PoolAttemptFails(i, e)
    \/ PoolBackoffDone(i)

SpecPool == InitPool /\ [][NextPool]_vars

\* ------------------------------------- search_people / reset_search_state
\* The values of the get_next_page argument: true, false, the string "true",
\* or missing.
JsTrue == "true"

JsFalse == "false"

JsStringTrue == "'true'"

GetNextPageValues == {JsTrue, JsFalse, JsStringTrue, Undefined}

\* The failures of a search request: no response, or a response status.
SearchErrors ==
  { NetworkError,
    HttpErrorNoDescription(404),
    HttpErrorNoDescription(429),
    HttpErrorNoDescription(500),
    HttpErrorNoDescription(403),
    HttpError(403, NotEnoughCredits) }

\* Faulty variant: 422 has no case of its own.
getMcpErrorCode_No422(httpStatus) ==
  IF httpStatus = 0 THEN "INTERNAL"
  ELSE IF httpStatus >= 500 THEN "INTERNAL"
  ELSE CASE httpStatus = 400 -> "INVALID_ARGUMENT"
         [] httpStatus = 401 -> "UNAUTHENTICATED"
         [] httpStatus = 403 -> "PERMISSION_DENIED"
         [] httpStatus = 404 -> "NOT_FOUND"
         [] httpStatus = 429 -> "RESOURCE_EXHAUSTED"
         [] OTHER -> "UNKNOWN"

\* getMcpErrorCode(httpStatus); a missing status is 0 here.
getMcpErrorCode(httpStatus) ==
  IF httpStatus = 0 THEN "INTERNAL"
  ELSE IF httpStatus >= 500 THEN "INTERNAL"
  ELSE CASE httpStatus = 400 -> "INVALID_ARGUMENT"
         [] httpStatus = 401 -> "UNAUTHENTICATED"
         [] httpStatus = 403 -> "PERMISSION_DENIED"
         [] httpStatus = 404 -> "NOT_FOUND"
         [] httpStatus = 422 -> "INVALID_ARGUMENT"
         [] httpStatus = 429 -> "RESOURCE_EXHAUSTED"
         [] OTHER -> "UNKNOWN"

\* What a call that did not throw reports.
NoReport == [code |-> "none", status |-> <<>>, detail |-> "none", attempts |-> <<>>]

\* The MCPError a failed search throws: its code, and what its message
\* carries: the status, the detail (data.detail is not part of the failures
\* here, so it is error.message) and no count of attempts.
\*   `Failed to ...: ${detail} (Status: ${error.response.status})`
\*   `Failed to ...: No response from server.`
SearchMCPError(e) ==
  IF e.hasResponse
    THEN [code |-> getMcpErrorCode(e.status), status |-> <<e.status>>,
          detail |-> "error.message", attempts |-> <<>>]
    ELSE [code |-> "UNAVAILABLE", status |-> <<>>, detail |-> "none", attempts |-> <<>>]

\* const { get_next_page, ...searchParams } = params;
get_next_page(params) ==
  IF "get_next_page" \in DOMAIN params THEN params["get_next_page"] ELSE Undefined

\* Faulty variant: the reserved field stays among the query parameters.
searchParams_KeepsReserved(params) == params

searchParams(params) == [k \in (DOMAIN params) \ {"get_next_page"} |-> params[k]]

\* The arguments search_people is called with.
SearchPeopleParams == { Params(g, f) : g \in GetNextPageValues, f \in Filters }

\* if (get_next_page === true)
\* Faulty variant: the string "true" selects the continuation as well.
IsContinuation_Loose(g) == g \in {JsTrue, JsStringTrue}

IsContinuation(g) == g = JsTrue

\* axiosInstance.get(nextPageUrl)
\* Faulty variant: the continuation sends the supplied filters too.
ContinuationRequest_WithFilters(nextPageUrl, params) ==
  Request(nextPageUrl, searchParams(params))

ContinuationRequest(nextPageUrl, params) == Request(nextPageUrl, NoFilters)

\* axiosInstance.get(requestUrl, { params: searchParams })
FreshRequest(params) == Request(SearchEndpoint, searchParams(params))

\* The handler returns a result as content and re-throws an MCPError.
ToolAnswer(outcome) == IF outcome = "error" THEN "MCPError" ELSE "content"

\* if (!nextPageUrl)
\* Faulty variant: the missing-cursor test is skipped.
NoNextPageUrl_Never(url) == FALSE

NoNextPageUrl(url) == url \in {NULL, Undefined, ""}

\* this.nextPageSearchPeopleUrl = null;  // Reset next page URL on new search
\* Faulty variant: a new search keeps the old cursor.
ResetOnNewSearch_Keeps(url) == url

ResetOnNewSearch(url) == NULL

\* this.nextPageSearchPeopleUrl = response.data.next_page || null;
\* Faulty variant: the next page of the response is not stored.
StoreNextPage_Drops(next_page) == NULL

\* Faulty variant: only null and undefined become null ("??" for "||").
StoreNextPage_KeepsEmpty(next_page) ==
  IF next_page \in {NULL, Undefined} THEN NULL ELSE next_page

\* Faulty variant: the cursor is not taken from the response.
StoreNextPage_Fixed(next_page) == "urlA"

StoreNextPage(next_page) ==
  IF next_page \in {NULL, Undefined, ""} THEN NULL ELSE next_page

\* this.nextPageSearchPeopleUrl = null;  // Reset the URL on error
\* Faulty variant: a failed continuation keeps the cursor.
ResetOnError_Keeps(url) == url

ResetOnError(url) == NULL

\* A completed call as its caller and an observer of the cursor saw it.
Completed(kind, slot, sent, outcome, next, error, oldUrl, after) ==
  [ kind |-> kind, before |-> slot.before, mid |-> slot.mid, sent |-> sent,
    outcome |-> outcome, next |-> next, error |-> error, oldUrl |-> oldUrl,
    after |-> after, racedBy |-> slot.racedBy,
    session |-> slot.session, params |-> slot.params,
    query |-> slot.request.query, answer |-> ToolAnswer(outcome),
    raised |-> IF outcome = "error" THEN SearchMCPError(error).code ELSE "none",
    requests |-> IF sent = NULL THEN 0 ELSE 1,
    report |-> IF outcome = "error" THEN SearchMCPError(error) ELSE NoReport ]

\* The arguments and the query are kept for the last completed call only.
Forget(entry) == [entry EXCEPT !.params = NoFilters, !.query = NoFilters]

Remember(l, entry) ==
  IF Len(l) = 0 THEN <<entry>> ELSE <<Forget(l[Len(l)]), entry>>

InFlight(c) == call[c].pc # "idle"

\* Every other call in flight has had the cursor written under it.
Disturb(c, kind) ==
  [d \in Calls |->
     IF d # c /\ InFlight(d)
       THEN [call[d] EXCEPT !.racedBy = @ \cup {kind}]
       ELSE call[d]]

\* search_people(params) up to its first await (or its return): handler slot
\* c takes the call of session s with arguments params.
search_people(c, s, params) ==
  /\ call[c].pc = "idle"
  /\ IF IsContinuation(get_next_page(params))
       THEN LET nextPageUrl == nextPageSearchPeopleUrl
                slot == [Idle EXCEPT !.before = nextPageSearchPeopleUrl,
                                     !.mid = nextPageSearchPeopleUrl,
                                     !.nextPageUrl = nextPageUrl,
                                     !.session = s,
                                     !.params = params]
            IN IF NoNextPageUrl(nextPageUrl)
                 THEN /\ log' = Remember(log, Completed("continuation", slot, NULL,
                                   "NoNextPage", Undefined, NetworkError, NULL,
                                   nextPageSearchPeopleUrl))
                      /\ UNCHANGED <<nextPageSearchPeopleUrl, call>>
                 ELSE /\ call' = [call EXCEPT ![c] =
                                    [slot EXCEPT !.pc = "contAwait",
                                                 !.request = ContinuationRequest(nextPageUrl, params)]]
                      /\ UNCHANGED <<nextPageSearchPeopleUrl, log>>
       ELSE /\ nextPageSearchPeopleUrl' = ResetOnNewSearch(nextPageSearchPeopleUrl)
            /\ call' = [Disturb(c, "fresh") EXCEPT ![c] =
                          [Idle EXCEPT !.pc = "freshAwait",
                                       !.before = nextPageSearchPeopleUrl,
                                       !.mid = nextPageSearchPeopleUrl',
                                       !.session = s,
                                       !.params = params,
                                       !.request = FreshRequest(params)]]
            /\ UNCHANGED log
  /\ UNCHANGED <<classifyVars, retryVars, delayVars, poolVars, codeVars>>

\* await axiosInstance.get(nextPageUrl) resolves with data.next_page = n.
ContinuationSucceeds(c, n) ==
  /\ call[c].pc = "contAwait"
  /\ nextPageSearchPeopleUrl' = StoreNextPage(n)
  /\ log' = Remember(log, Completed("continuation", call[c], call[c].request.url,
               "ok", n, NetworkError, NULL, nextPageSearchPeopleUrl'))
  /\ call' = [Disturb(c, "continuation") EXCEPT ![c] = Idle]
  /\ UNCHANGED <<classifyVars, retryVars, delayVars, poolVars, codeVars>>

\* await axiosInstance.get(nextPageUrl) rejects with e: the catch block.
ContinuationFails(c, e) ==
  /\ call[c].pc = "contAwait"
  /\ LET oldUrl == nextPageSearchPeopleUrl
     IN /\ nextPageSearchPeopleUrl' = ResetOnError(nextPageSearchPeopleUrl)
        /\ log' = Remember(log, Completed("continuation", call[c], call[c].request.url,
                     "error", Undefined, e, oldUrl, nextPageSearchPeopleUrl'))
  /\ call' = [Disturb(c, "continuation") EXCEPT ![c] = Idle]
  /\ UNCHANGED <<classifyVars, retryVars, delayVars, poolVars, codeVars>>

\* await axiosInstance.get(requestUrl, { params }) resolves.
FreshSearchSucceeds(c, n) ==
  /\ call[c].pc = "freshAwait"
  /\ nextPageSearchPeopleUrl' = StoreNextPage(n)
  /\ log' = Remember(log, Completed("fresh", call[c], call[c].request.url,
               "ok", n, NetworkError, NULL, nextPageSearchPeopleUrl'))
  /\ call' = [Disturb(c, "fresh") EXCEPT ![c] = Idle]
  /\ UNCHANGED <<classifyVars, retryVars, delayVars, poolVars, codeVars>>

\* await axiosInstance.get(requestUrl, { params }) rejects: the catch block
\* throws an MCPError and leaves the cursor alone.
FreshSearchFails(c, e) ==
  /\ call[c].pc = "freshAwait"
  /\ log' = Remember(log, Completed("fresh", call[c], call[c].request.url,
               "error", Undefined, e, NULL, nextPageSearchPeopleUrl))
  /\ call' = [call EXCEPT ![c] = Idle]
  /\ UNCHANGED <<nextPageSearchPeopleUrl, classifyVars, retryVars, delayVars, poolVars, codeVars>>

\* Faulty variant: the reset leaves the cursor as it is.
reset_search_state_Keeps(c, s) ==
  /\ call[c].pc = "idle"
  /\ nextPageSearchPeopleUrl' = nextPageSearchPeopleUrl
  /\ log' = Remember(log, Completed("reset",
               [Idle EXCEPT !.before = nextPageSearchPeopleUrl,
                            !.mid = nextPageSearchPeopleUrl', !.session = s],
               NULL, "ok", Undefined, NetworkError, NULL, nextPageSearchPeopleUrl'))
  /\ call' = Disturb(c, "reset")
  /\ UNCHANGED <<classifyVars, retryVars, delayVars, poolVars, codeVars>>

\* reset_search_state(): no await, so the whole call is one step; it returns
\* { success: true, ... }.
reset_search_state(c, s) ==
  /\ call[c].pc = "idle"
  /\ nextPageSearchPeopleUrl' = NULL
  /\ log' = Remember(log, Completed("reset",
               [Idle EXCEPT !.before = nextPageSearchPeopleUrl,
                            !.mid = nextPageSearchPeopleUrl', !.session = s],
               NULL, "ok", Undefined, NetworkError, NULL, nextPageSearchPeopleUrl'))
  /\ call' = Disturb(c, "reset")
  /\ UNCHANGED <<classifyVars, retryVars, delayVars, poolVars, codeVars>>

InitSearch ==
  /\ ClassifyIdle
  /\ RetryIdle
  /\ SearchIdle
  /\ DelayIdle
  /\ PoolIdle
  /\ CodeIdle

\* The request of call c is answered: with a next_page of nexts, or with a
\* failure of errors.
CompletesWith(c, nexts, errors) ==
  \/ \E n \in nexts : ContinuationSucceeds(c, n)
  \/ \E e \in errors : ContinuationFails(c, e)
  \/ \E n \in nexts : FreshSearchSucceeds(c, n)
  \/ \E e \in errors : FreshSearchFails(c, e)

Completes(c) == CompletesWith(c, NextPageValues, SearchErrors)

\* The calls that are let overlap: one session, no filters, get_next_page
\* true or missing.
OverlappingSessions == {"A"}

OverlappingParams == { Params(g, NoFilters) : g \in {JsTrue, Undefined} }

\* The tool-call handler takes each request as it arrives: calls overlap at
\* their awaits.
Next ==
  \E c \in Calls :
    \/ \E s \in OverlappingSessions, p \in OverlappingParams : search_people(c, s, p)
    \/ \E s \in OverlappingSessions : reset_search_state(c, s)
    \/ Completes(c)

Spec == InitSearch /\ [][Next]_vars

\* A client that waits for each answer before it sends the next request.
NoneInFlight == \A c \in Calls : ~InFlight(c)

\* One session that supplies no filters, with each value of get_next_page.
SeqSessions == {"A"}

SeqParams == { Params(g, NoFilters) : g \in GetNextPageValues }

NextSeq ==
  \E c \in Calls :
    \/ NoneInFlight /\ \E s \in SeqSessions, p \in SeqParams : search_people(c, s, p)
    \/ NoneInFlight /\ \E s \in SeqSessions : reset_search_state(c, s)
    \/ Completes(c)

SpecSeq == InitSearch /\ [][NextSeq]_vars

\* Two sessions whose calls come one at a time, with every combination of
\* filters and get_next_page; the remote service answers with a next page,
\* with none, or with a failure.
CallerNextPages == {"urlA", NULL}

CallerErrors == {HttpErrorNoDescription(500)}

NextCallers ==
  \E c \in Calls :
    \/ NoneInFlight /\ \E s \in Sessions, p \in SearchPeopleParams : search_people(c, s, p)
    \/ NoneInFlight /\ \E s \in Sessions : reset_search_state(c, s)
    \/ CompletesWith(c, CallerNextPages, CallerErrors)

SpecCallers == InitSearch /\ [][NextCallers]_vars

\* ------------------------------------------------- getMcpErrorCode alone
McpStatuses == {0} \cup 390..MaxHttpStatus

InitCode ==
  /\ ClassifyIdle
  /\ RetryIdle
  /\ SearchIdle
  /\ DelayIdle
  /\ PoolIdle
  /\ statusArg \in McpStatuses
  /\ mcpCode = "pending"

MapStatus ==
  /\ mcpCode = "pending"
  /\ mcpCode' = getMcpErrorCode(statusArg)
  /\ UNCHANGED <<statusArg, classifyVars, retryVars, searchVars, delayVars, poolVars>>

NextCode == MapStatus

SpecCode == InitCode /\ [][NextCode]_vars

\* ------------------------------------------------------- the other tools
\* if (!x): x is missing, null or the empty string.
Falsy(v) == v \in {Undefined, NULL, ""}

\* args.k: undefined when the field is missing.
Arg(args, k) == IF k \in DOMAIN args THEN args[k] ELSE Undefined

\* obj.k = v and delete obj.k
Put(obj, k, v) == [x \in (DOMAIN obj) \cup {k} |-> IF x = k THEN v ELSE obj[x]]

Delete(obj, k) == [x \in (DOMAIN obj) \ {k} |-> obj[x]]

\* The MCPError a client method throws for a failed request.
ClientMCPError(e) ==
  IF e.hasResponse
    THEN [code |-> getMcpErrorCode(e.status), status |-> <<>>,
          detail |-> "error.message", attempts |-> <<>>]
    ELSE [code |-> "UNAVAILABLE", status |-> <<>>, detail |-> "none", attempts |-> <<>>]

\* throw new MCPError(ErrorCode.INVALID_ARGUMENT, "first_name and
\* company_domain are required parameters")
RequiredParameters ==
  [code |-> "INVALID_ARGUMENT", status |-> <<>>, detail |-> "required", attempts |-> <<>>]

\* The catch block of the lookup_profile_by_person_name case:
\*   throw new MCPError(ErrorCode.INTERNAL, `Failed to ...: ${error.message}`)
LookupCatch(err) == [err EXCEPT !.code = "INTERNAL", !.detail = "error.message"]

\* The catch block of the handler re-throws an MCPError as it is.
HandlerCatch(err) == err

LookupTool == "lookup_profile_by_person_name"

CompaniesTool == "advanced_search_companies"

ProfileTools == {"get_person_profile", "get_company_profile", "search_employees"}

OtherTools == ProfileTools \cup {LookupTool, CompaniesTool}

\* What the caller of tool gets for the MCPError err raised in its case.
Received(tool, err) ==
  IF tool = LookupTool THEN HandlerCatch(LookupCatch(err)) ELSE HandlerCatch(err)

\* None of the other methods assigns this.nextPageSearchPeopleUrl.
\* Faulty variant: the method clears the cursor.
OtherToolCursor_Cleared(url) == NULL

OtherToolCursor(url) == url

\* A completed call of one of the other tools: the MCPError raised where the
\* call failed, and the one the caller receives.
ToolCompleted(slot, outcome, error, err, after) ==
  [ Completed(slot.tool, slot, slot.request.url, outcome, Undefined, error, NULL, after)
      EXCEPT !.raised = IF outcome = "error" THEN err.code ELSE "none",
             !.report = IF outcome = "error" THEN Received(slot.tool, err) ELSE NoReport ]

ToolSlot(s, tool, args, request, at) ==
  [Idle EXCEPT !.pc = at, !.session = s, !.tool = tool, !.params = args,
               !.request = request,
               !.before = nextPageSearchPeopleUrl, !.mid = nextPageSearchPeopleUrl]

\* The arguments of a lookup_profile_by_person_name call.
LookupArgs ==
  { [k \in {"first_name", "company_domain"} |->
       IF k = "first_name" THEN "John" ELSE "acme.com"],
    [k \in {"first_name", "company_domain"} |->
       IF k = "first_name" THEN "" ELSE "acme.com"],
    [k \in {"first_name", "company_domain"} |->
       IF k = "first_name" THEN "John" ELSE ""],
    [k \in {"first_name"} |-> "John"],
    [k \in {"company_domain"} |-> "acme.com"],
    NoFilters }

LookupEndpoint == "/linkedin/profile/resolve"

\* lookupProfileByPersonName: params = { first_name, similarity_checks,
\* enrich_profile }, and company_domain when it is given.
LookupRequest(args) ==
  Request(LookupEndpoint,
    [k \in {"first_name", "company_domain", "similarity_checks", "enrich_profile"} |->
       CASE k = "similarity_checks" -> "include"
         [] k = "enrich_profile" -> "enrich"
         [] OTHER -> args[k]])

\* case "lookup_profile_by_person_name", up to the await of the request or
\* to the throw for a missing argument.
lookup_profile_by_person_name(c, s, args) ==
  /\ call[c].pc = "idle"
  /\ nextPageSearchPeopleUrl' = OtherToolCursor(nextPageSearchPeopleUrl)
  /\ IF Falsy(Arg(args, "first_name")) \/ Falsy(Arg(args, "company_domain"))
       THEN /\ log' = Remember(log,
                    ToolCompleted(ToolSlot(s, LookupTool, args, NoRequest, "idle"),
                                  "error", NetworkError, RequiredParameters,
                                  nextPageSearchPeopleUrl'))
            /\ call' = call
       ELSE /\ call' = [call EXCEPT ![c] =
                        ToolSlot(s, LookupTool, args, LookupRequest(args), "toolAwait")]
            /\ log' = log
  /\ UNCHANGED <<classifyVars, retryVars, delayVars, poolVars, codeVars>>

\* The filters of an advanced_search_companies call.
CompanyFilters ==
  { f \in UNION { [D -> {"10", "20", "US"}] : D \in SUBSET {"limit", "page_size", "country"} } :
      /\ "limit" \in DOMAIN f => f["limit"] = "10"
      /\ "page_size" \in DOMAIN f => f["page_size"] = "20"
      /\ "country" \in DOMAIN f => f["country"] = "US" }

DefaultPageSize == "5"

CompaniesEndpoint == "/v2/search/company"

\* advancedSearchCompanies: filterParams = { ...filters }, then the default
\* page size, then the conversion of limit.
filterParams(filters) ==
  LET withDefault == IF Falsy(Arg(filters, "page_size"))
                       THEN Put(filters, "page_size", DefaultPageSize)
                       ELSE filters
  IN IF ~Falsy(Arg(withDefault, "limit")) /\ Falsy(Arg(withDefault, "page_size"))
       THEN Delete(Put(withDefault, "page_size", withDefault["limit"]), "limit")
       ELSE withDefault

\* advancedSearchCompanies(filters) up to the await of its request.
advancedSearchCompanies(c, s, filters) ==
  /\ call[c].pc = "idle"
  /\ nextPageSearchPeopleUrl' = OtherToolCursor(nextPageSearchPeopleUrl)
  /\ call' = [call EXCEPT ![c] =
       ToolSlot(s, CompaniesTool, filters,
                Request(CompaniesEndpoint, filterParams(filters)), "toolAwait")]
  /\ UNCHANGED <<log, classifyVars, retryVars, delayVars, poolVars, codeVars>>

\* getPersonProfile, getCompanyProfile, searchEmployees up to the await of
\* the request.
ProfileTool(c, s, tool) ==
  /\ call[c].pc = "idle"
  /\ nextPageSearchPeopleUrl' = OtherToolCursor(nextPageSearchPeopleUrl)
  /\ call' = [call EXCEPT ![c] =
       ToolSlot(s, tool, NoFilters, Request(tool, NoFilters), "toolAwait")]
  /\ UNCHANGED <<log, classifyVars, retryVars, delayVars, poolVars, codeVars>>

\* The request of one of the other tools resolves: return response.data.
ToolSucceeds(c) ==
  /\ call[c].pc = "toolAwait"
  /\ nextPageSearchPeopleUrl' = OtherToolCursor(nextPageSearchPeopleUrl)
  /\ log' = Remember(log, ToolCompleted(call[c], "ok", NetworkError, NoReport,
                                        nextPageSearchPeopleUrl'))
  /\ call' = [call EXCEPT ![c] = Idle]
  /\ UNCHANGED <<classifyVars, retryVars, delayVars, poolVars, codeVars>>

\* The request rejects with e: the catch block of the method throws an
\* MCPError, which the handler passes on.
ToolFails(c, e) ==
  /\ call[c].pc = "toolAwait"
  /\ nextPageSearchPeopleUrl' = OtherToolCursor(nextPageSearchPeopleUrl)
  /\ log' = Remember(log, ToolCompleted(call[c], "error", e, ClientMCPError(e),
                                        nextPageSearchPeopleUrl'))
  /\ call' = [call EXCEPT ![c] = Idle]
  /\ UNCHANGED <<classifyVars, retryVars, delayVars, poolVars, codeVars>>

\* lookup_profile_by_person_name calls, one at a time.
NextLookup ==
  \E c \in Calls :
    \/ NoneInFlight /\ \E s \in SeqSessions, a \in LookupArgs :
         lookup_profile_by_person_name(c, s, a)
    \/ ToolSucceeds(c)
    \/ \E e \in SearchErrors : ToolFails(c, e)

SpecLookup == InitSearch /\ [][NextLookup]_vars

\* advanced_search_companies calls, one at a time.
NextCompanies ==
  \E c \in Calls :
    \/ NoneInFlight /\ \E s \in SeqSessions, f \in CompanyFilters :
         advancedSearchCompanies(c, s, f)
    \/ ToolSucceeds(c)
    \/ \E e \in SearchErrors : ToolFails(c, e)

SpecCompanies == InitSearch /\ [][NextCompanies]_vars

\* Calls of every tool, one at a time.
ToolLookupArgs ==
  { a \in LookupArgs : DOMAIN a = {"first_name", "company_domain"} }

ToolCompanyFilters == { f \in CompanyFilters : DOMAIN f \subseteq {"limit"} }

NextTools ==
  \E c \in Calls :
    \/ NoneInFlight /\ \E s \in SeqSessions, p \in OverlappingParams : search_people(c, s, p)
    \/ NoneInFlight /\ \E s \in SeqSessions : reset_search_state(c, s)
    \/ CompletesWith(c, CallerNextPages, CallerErrors)
    \/ NoneInFlight /\ \E s \in SeqSessions, a \in ToolLookupArgs :
         lookup_profile_by_person_name(c, s, a)
    \/ NoneInFlight /\ \E s \in SeqSessions, f \in ToolCompanyFilters :
         advancedSearchCompanies(c, s, f)
    \/ NoneInFlight /\ \E s \in SeqSessions, t \in ProfileTools : ProfileTool(c, s, t)
    \/ ToolSucceeds(c)
    \/ \E e \in CallerErrors : ToolFails(c, e)

SpecTools == InitSearch /\ [][NextTools]_vars

\* ---------------------------------------------- calculateRetryDelay alone
InitDelay ==
  /\ ClassifyIdle
  /\ RetryIdle
  /\ SearchIdle
  /\ dAttempt \in 1..MaxAttemptNumber
  /\ dStatus \in DelayStatuses
  /\ dRandom \in Randoms
  /\ dReturned = FALSE
  /\ dDelay = 0
  /\ PoolIdle
  /\ CodeIdle

ComputeDelay ==
  /\ ~dReturned
  /\ dReturned' = TRUE
  /\ dDelay' = calculateRetryDelay(dAttempt, dStatus, dRandom)
  /\ UNCHANGED <<dAttempt, dStatus, dRandom, classifyVars, retryVars, searchVars, poolVars, codeVars>>

NextDelay == ComputeDelay

SpecDelay == InitDelay /\ [][NextDelay]_vars

\* ------------------------------------------------------------------ claims
\* The failures the specification calls retryable (section 4.1, rules 1-4),
\* stated on the failure's fields.
ContainsNotEnoughCredits(d) ==
  \E i \in 1..Len(d) :
    i + 2 <= Len(d) /\ SubSeq(d, i, i + 2) = <<"Not", "enough", "credits">>

RetryableOutcome(e) ==
  \/ ~e.hasResponse
  \/ e.hasResponse /\ e.status = 429
  \/ e.hasResponse /\ e.status \in {500, 502, 503, 504}
  \/ e.hasResponse /\ e.status = 403 /\ e.hasDescription
       /\ ContainsNotEnoughCredits(e.description)

AllAttemptsFailedRetryable ==
  \A k \in 1..Len(outcomes) : ~outcomes[k].ok /\ RetryableOutcome(outcomes[k].error)

\* C1: one invocation of makeRequestWithRetry with maxRetries >= 0 performs at
\* most maxRetries + 1 network attempts, whatever the attempts' outcomes are.
C1_AttemptsBounded ==
  pc # "idle" => attempts <= maxRetries + 1 /\ Len(outcomes) <= maxRetries + 1

C1_Witness ==
  /\ pc = "FailedExhausted"
  /\ maxRetries = DefaultMaxRetries
  /\ attempts = maxRetries + 1

\* C2: when every attempt fails with a retryable outcome the invocation makes
\* exactly maxRetries + 1 attempts (4 with the default 3) and is then in the
\* exhausted-retries state: it has not ended before, and it ends in no other
\* terminal state.
C2_AllRetryableExhausts ==
  AllAttemptsFailedRetryable =>
    /\ pc \in Terminal =>
         /\ pc = "FailedExhausted"
         /\ attempts = maxRetries + 1
         /\ Len(outcomes) = maxRetries + 1
         /\ maxRetries = DefaultMaxRetries => attempts = 4
    /\ (pc # "idle" /\ Len(outcomes) = maxRetries + 1) => pc = "FailedExhausted"
    /\ (pc # "idle" /\ Len(outcomes) < maxRetries + 1) => pc \in {"awaiting", "backoff"}

C2_Witness ==
  /\ pc = "FailedExhausted"
  /\ maxRetries = DefaultMaxRetries
  /\ attempts = 4
  /\ \A k \in 1..Len(outcomes) : outcomes[k] = Failed(HttpErrorNoDescription(500), k)

\* C3: a non-retryable failure of an attempt ends the invocation in the
\* non-retryable failure state at that attempt, with no wait after it and no
\* further attempt, whatever maxRetries and the attempt number are; on the
\* first attempt that is exactly 1 attempt.
C3_NonRetryableEndsAtOnce ==
  (Len(outcomes) >= 1
    /\ ~outcomes[Len(outcomes)].ok
    /\ ~RetryableOutcome(outcomes[Len(outcomes)].error)) =>
      /\ pc = "FailedNonRetryable"
      /\ thrown = outcomes[Len(outcomes)].error
      /\ attempts = Len(outcomes)
      /\ waits = Len(outcomes) - 1
      /\ outcomes[Len(outcomes)].n = Len(outcomes)
      /\ Len(outcomes) = 1 => attempts = 1 /\ waits = 0

C3_Witness ==
  /\ pc = "FailedNonRetryable"
  /\ maxRetries = DefaultMaxRetries
  /\ attempts = 1
  /\ outcomes = <<Failed(HttpErrorNoDescription(404), 1)>>

\* C4: isRetryableError returns for every failure, and returns true exactly
\* for: no response; status 429; status 500, 502, 503 or 504; status 403 with
\* a description containing "Not enough credits" (case-sensitive). 400, 401,
\* 404, 422, 501 and a 403 with another or no description give false.
C4_ClassifierCases ==
  /\ ~cReturned => ENABLED Classify
  /\ cReturned =>
       /\ cResult = RetryableOutcome(cError)
       /\ (cError.hasResponse /\ cError.status \in {400, 401, 404, 422, 501}) => ~cResult
       /\ (cError.hasResponse /\ cError.status = 403 /\ ~cError.hasDescription) => ~cResult
       /\ (cError.hasResponse /\ cError.status = 403 /\ cError.hasDescription
             /\ cError.description \in {<<>>, <<"not", "enough", "credits">>,
                                        <<"Not", "enough">>, <<"Not", "x", "enough", "credits">>})
            => ~cResult

C4_Witness ==
  /\ cReturned
  /\ cResult
  /\ cError = HttpError(403, <<"x", "Not", "enough", "credits">>)

IsCall(entry, kind, outcome) == entry.kind = kind /\ entry.outcome = outcome

\* C5: a search_people call with get_next_page = true made while the cursor
\* is null gets the "No next page available" outcome, issues no request and
\* leaves the cursor null.
C5_NullCursorNoRequest ==
  /\ \A k \in 1..Len(log) :
       (log[k].kind = "continuation" /\ log[k].before = NULL) =>
         /\ log[k].outcome = "NoNextPage"
         /\ log[k].sent = NULL
         /\ log[k].after = NULL
  /\ \A c \in Calls : call[c].pc = "contAwait" => call[c].nextPageUrl # NULL
  /\ (Len(log) > 0 /\ NoneInFlight /\ log[Len(log)].outcome = "NoNextPage") =>
       nextPageSearchPeopleUrl = NULL

C5_Witness ==
  /\ Len(log) = 2
  /\ IsCall(log[1], "reset", "ok")
  /\ log[1].before = "urlA"
  /\ IsCall(log[2], "continuation", "NoNextPage")
  /\ nextPageSearchPeopleUrl = NULL

\* C6: from a null cursor, a successful fresh search whose response carries
\* next page urlA, then a successful continuation whose response carries
\* urlB: the cursor is null, then urlA, then urlB, and the continuation's
\* request goes to urlA.
C6_CursorFollowsPages ==
  /\ \A k \in 1..Len(log) :
       (IsCall(log[k], "fresh", "ok") /\ log[k].before = NULL /\ log[k].next = "urlA") =>
         /\ log[k].mid = NULL
         /\ log[k].sent = SearchEndpoint
         /\ log[k].after = "urlA"
  /\ (/\ Len(log) = 2
      /\ IsCall(log[1], "fresh", "ok") /\ log[1].before = NULL /\ log[1].next = "urlA"
      /\ IsCall(log[2], "continuation", "ok") /\ log[2].next = "urlB") =>
        /\ log[2].before = "urlA"
        /\ log[2].sent = "urlA"
        /\ log[2].after = "urlB"
        /\ NoneInFlight => nextPageSearchPeopleUrl = "urlB"

C6_Witness ==
  /\ Len(log) = 2
  /\ IsCall(log[1], "fresh", "ok") /\ log[1].before = NULL /\ log[1].next = "urlA"
  /\ IsCall(log[2], "continuation", "ok") /\ log[2].next = "urlB"
  /\ log[2].sent = "urlA"
  /\ nextPageSearchPeopleUrl = "urlB"

\* C7: a fresh search that fails leaves the cursor null, also when a cursor
\* was stored before it started (the reset comes before the request), so the
\* continuation after it gets the "No next page available" outcome.
C7_FailedFreshSearchLeavesNull ==
  /\ \A k \in 1..Len(log) :
       IsCall(log[k], "fresh", "error") => log[k].mid = NULL /\ log[k].after = NULL
  /\ \A c \in Calls : call[c].pc = "freshAwait" => nextPageSearchPeopleUrl = NULL
  /\ (Len(log) > 0 /\ NoneInFlight /\ IsCall(log[Len(log)], "fresh", "error")) =>
       nextPageSearchPeopleUrl = NULL
  /\ (Len(log) = 2 /\ IsCall(log[1], "fresh", "error") /\ log[2].kind = "continuation") =>
       log[2].outcome = "NoNextPage" /\ log[2].sent = NULL

C7_Witness ==
  /\ Len(log) = 2
  /\ IsCall(log[1], "fresh", "error")
  /\ log[1].before = "urlA"
  /\ IsCall(log[2], "continuation", "NoNextPage")

\* C8: a continuation with a non-null cursor that ends in failure, with a
\* retryable or a non-retryable failure, sets the cursor to null, so the next
\* continuation gets the "No next page available" outcome without a request.
C8_FailedContinuationClears ==
  /\ \A k \in 1..Len(log) :
       IsCall(log[k], "continuation", "error") =>
         log[k].before # NULL /\ log[k].sent = log[k].before /\ log[k].after = NULL
  /\ (Len(log) > 0 /\ NoneInFlight /\ IsCall(log[Len(log)], "continuation", "error")) =>
       nextPageSearchPeopleUrl = NULL
  /\ (Len(log) = 2 /\ IsCall(log[1], "continuation", "error")
        /\ log[2].kind = "continuation") =>
       log[2].outcome = "NoNextPage" /\ log[2].sent = NULL

C8_Witness ==
  /\ Len(log) = 2
  /\ IsCall(log[1], "continuation", "error")
  /\ log[1].before = "urlA"
  /\ ~RetryableOutcome(log[1].error)
  /\ IsCall(log[2], "continuation", "NoNextPage")

\* C9: two fresh searches running concurrently never interleave their
\* reset/set pairs: while one is between its reset and its set no other fresh
\* search resets or sets the cursor, and a reader of the cursor sees null
\* there, never the other search's cursor.
C9_FreshSearchesSerialized ==
  \A c \in Calls :
    call[c].pc = "freshAwait" =>
      /\ "fresh" \notin call[c].racedBy
      /\ call[c].racedBy \subseteq {"fresh"} => nextPageSearchPeopleUrl = NULL

\* C10: an overlapping continuation and fresh search are serialized: no fresh
\* search resets or stores the cursor between a continuation's read of it and
\* that continuation's write, and no continuation writes the cursor after a
\* fresh search that started during it has written.
C10_ContinuationSerialized ==
  /\ \A c \in Calls :
       call[c].pc = "contAwait" => "fresh" \notin call[c].racedBy
  /\ \A k \in 1..Len(log) :
       (log[k].kind = "continuation" /\ log[k].sent # NULL) =>
         "fresh" \notin log[k].racedBy

\* The base delay the specification gives attempt n: baseDelayMs * 2^(n-1),
\* with baseDelayMs = 1000, or 5000 (1000 * rateLimitMultiplier) for a 429.
SpecBase(n, first) == first * Pow2(n - 1)

\* base * (1 - 0.125) and base * (1 + 0.125), as scaled delays.
JitterLow(base) == 7 * base * JitterSteps

JitterHigh(base) == 9 * base * JitterSteps

\* C11 as stated: for n >= 1 and a failure that is no rate limit,
\* 1000*2^(n-1)*(1 - 0.125) <= delay <= min(30000, 1000*2^(n-1)*(1 + 0.125)).
C11_AsStated ==
  (dReturned /\ dStatus # <<429>>) =>
    /\ JitterLow(SpecBase(dAttempt, 1000)) <= dDelay
    /\ dDelay <= Min(Ms(30000), JitterHigh(SpecBase(dAttempt, 1000)))

\* C11 (amended): for n >= 1 and a failure that is no rate limit,
\* min(30000, 1000*2^(n-1)*(1 - 0.125)) <= delay
\*   <= min(30000, 1000*2^(n-1)*(1 + 0.125)): the cap applies to both ends.
C11_BoundsWithCap ==
  (dReturned /\ dStatus # <<429>>) =>
    /\ Min(Ms(30000), JitterLow(SpecBase(dAttempt, 1000))) <= dDelay
    /\ dDelay <= Min(Ms(30000), JitterHigh(SpecBase(dAttempt, 1000)))

C11_Witness ==
  /\ dReturned
  /\ dStatus = <<500>>
  /\ dAttempt = 7
  /\ dDelay = Ms(30000)

\* C12 as stated: for n >= 1 and status 429,
\* 5000*2^(n-1)*(1 - 0.125) <= delay <= min(30000, 5000*2^(n-1)*(1 + 0.125)).
C12_AsStated ==
  (dReturned /\ dStatus = <<429>>) =>
    /\ JitterLow(SpecBase(dAttempt, 5000)) <= dDelay
    /\ dDelay <= Min(Ms(30000), JitterHigh(SpecBase(dAttempt, 5000)))

\* C12 (amended): for n >= 1 and status 429,
\* min(30000, 5000*2^(n-1)*(1 - 0.125)) <= delay
\*   <= min(30000, 5000*2^(n-1)*(1 + 0.125)).
C12_RateLimitBoundsWithCap ==
  (dReturned /\ dStatus = <<429>>) =>
    /\ Min(Ms(30000), JitterLow(SpecBase(dAttempt, 5000))) <= dDelay
    /\ dDelay <= Min(Ms(30000), JitterHigh(SpecBase(dAttempt, 5000)))

C12_Witness ==
  /\ dReturned
  /\ dStatus = <<429>>
  /\ dAttempt = 4
  /\ dDelay = Ms(30000)

\* C13: for every attempt number, failure class and jitter value the delay
\* returned lies in [0, 30000] milliseconds.
C13_DelayClamped ==
  dReturned => 0 <= dDelay /\ dDelay <= Ms(30000)

C13_Witness ==
  /\ dReturned
  /\ dAttempt = 6
  /\ dStatus = <<>>
  /\ dRandom = 0
  /\ dDelay = Ms(28000)

Failure == {"FailedNonRetryable", "FailedExhausted"}

\* C15: the failure makeRequestWithRetry propagates is the outcome of the
\* last attempt made, not of an earlier one.
C15_ThrowsLastOutcome ==
  pc \in Failure =>
    /\ Len(outcomes) = attempts
    /\ ~outcomes[Len(outcomes)].ok
    /\ thrown = outcomes[Len(outcomes)].error

C15_Witness ==
  /\ pc = "FailedExhausted"
  /\ Len(outcomes) = 4
  /\ outcomes[1].error = HttpErrorNoDescription(429)
  /\ outcomes[4].error = HttpErrorNoDescription(500)
  /\ thrown = HttpErrorNoDescription(500)

\* C18: a request the remote service never answers is ended by a timeout, so
\* an invocation that is awaiting a response eventually stops awaiting it.
C18_AttemptEnds == [](pc = "awaiting" => <>(pc # "awaiting"))

\* C19: when every attempt and every wait completes, an invocation reaches a
\* terminal state (success, non-retryable failure or exhausted failure),
\* stays in it, and gives its caller a response or a failure; it never leaves
\* the loop without a value.
C19_ReachesOneTerminalState ==
  /\ [](pc \in {"awaiting", "backoff"} => <>(pc \in Failure \cup {"Succeeded"}))
  /\ [](pc # "FellOut")
  /\ [][(pc \in Terminal) => (pc' = pc)]_vars
  /\ [](pc = "Succeeded" => returned > 0 /\ outcomes[Len(outcomes)].ok)
  /\ [](pc \in Failure => returned = 0 /\ thrown = outcomes[Len(outcomes)].error)

C19_Witness ==
  /\ pc = "Succeeded"
  /\ waits = DefaultMaxRetries
  /\ returned = DefaultMaxRetries + 1

\* C20: when attempt k is the first to succeed, the invocation ends in
\* success after exactly k attempts and k - 1 waits, returns the response of
\* attempt k, and makes no attempt and no wait after it.
C20_FirstSuccessEnds ==
  (Len(outcomes) >= 1 /\ \E k \in 1..Len(outcomes) : outcomes[k].ok) =>
    /\ outcomes[Len(outcomes)].ok
    /\ \A j \in 1..(Len(outcomes) - 1) : ~outcomes[j].ok
    /\ pc = "Succeeded"
    /\ returned = Len(outcomes)
    /\ outcomes[Len(outcomes)].n = Len(outcomes)
    /\ attempts = Len(outcomes)
    /\ waits = Len(outcomes) - 1
    /\ Len(outcomes) <= maxRetries + 1

C20_Witness ==
  /\ pc = "Succeeded"
  /\ maxRetries = DefaultMaxRetries
  /\ returned = 2
  /\ attempts = 2
  /\ waits = 1

FailedSearch(entry) == entry.outcome = "error" /\ entry.kind \in {"fresh", "continuation"}

\* C14: a server method issues its request through the retry loop: a search
\* (fresh or continuation) whose request fails with a retryable failure
\* issues the request again, so a search that ends in a retryable failure
\* has made maxRetries + 1 = 4 requests.
C14_SearchRetries ==
  \A k \in 1..Len(log) :
    (FailedSearch(log[k]) /\ RetryableOutcome(log[k].error)) =>
      log[k].requests = DefaultMaxRetries + 1

\* C16: every failure reported to the caller of a search carries the number
\* of attempts made and the last status code and description.
C16_FailureCarriesAttempts ==
  \A k \in 1..Len(log) :
    FailedSearch(log[k]) =>
      /\ log[k].report.attempts = <<log[k].requests>>
      /\ log[k].report.status = OptionalStatus(log[k].error)

\* C17: the failure reported for a 403 "Not enough credits" and the failure
\* reported for a 403 with another description differ in kind.
C17_ForbiddenKindsDiffer ==
  \A j, k \in 1..Len(log) :
    (/\ FailedSearch(log[j]) /\ FailedSearch(log[k])
     /\ log[j].error.hasResponse /\ log[j].error.status = 403
     /\ log[j].error.hasDescription
     /\ ContainsNotEnoughCredits(log[j].error.description)
     /\ log[k].error.hasResponse /\ log[k].error.status = 403
     /\ ~log[k].error.hasDescription) =>
       log[j].report.code # log[k].report.code

\* C21: a reset_search_state call reports success and leaves the cursor
\* null whatever the calls before it did, and a continuation that comes
\* right after it gets the "No next page available" outcome with no request.
C21_ResetClearsCursor ==
  /\ \A k \in 1..Len(log) :
       log[k].kind = "reset" =>
         /\ log[k].outcome = "ok"
         /\ log[k].answer = "content"
         /\ log[k].after = NULL
  /\ (Len(log) > 0 /\ NoneInFlight /\ log[Len(log)].kind = "reset") =>
       nextPageSearchPeopleUrl = NULL
  /\ (Len(log) = 2 /\ log[1].kind = "reset" /\ log[2].kind = "continuation") =>
       /\ log[2].outcome = "NoNextPage"
       /\ log[2].requests = 0

C21_Witness ==
  /\ Len(log) = 2
  /\ IsCall(log[1], "reset", "ok")
  /\ log[1].before = "urlB"
  /\ IsCall(log[2], "continuation", "NoNextPage")
  /\ log[2].requests = 0

CarriesFilters(params) == (DOMAIN params) \ {"get_next_page"} # {}

\* C22: a continuation sends its request to the cursor URL stored when the
\* call started, with none of the filters of the call among the query
\* parameters.
C22_ContinuationIgnoresFilters ==
  /\ \A c \in Calls :
       call[c].pc = "contAwait" =>
         call[c].request = Request(call[c].before, NoFilters)
  /\ (Len(log) > 0 /\ log[Len(log)].kind = "continuation"
        /\ log[Len(log)].requests > 0) =>
       /\ log[Len(log)].sent = log[Len(log)].before
       /\ DOMAIN log[Len(log)].query = {}

C22_Witness ==
  /\ Len(log) > 0
  /\ IsCall(log[Len(log)], "continuation", "ok")
  /\ CarriesFilters(log[Len(log)].params)
  /\ log[Len(log)].sent = "urlA"

\* C23: the query parameters of a fresh search are the arguments of the
\* call without get_next_page: the same fields, each with its value.
C23_FreshSearchForwardsFilters ==
  /\ \A c \in Calls :
       call[c].pc = "freshAwait" =>
         /\ call[c].request.url = SearchEndpoint
         /\ DOMAIN call[c].request.query = (DOMAIN call[c].params) \ {"get_next_page"}
         /\ \A f \in DOMAIN call[c].request.query :
              call[c].request.query[f] = call[c].params[f]
  /\ (Len(log) > 0 /\ log[Len(log)].kind = "fresh") =>
       /\ DOMAIN log[Len(log)].query = (DOMAIN log[Len(log)].params) \ {"get_next_page"}
       /\ \A f \in DOMAIN log[Len(log)].query :
            log[Len(log)].query[f] = log[Len(log)].params[f]

C23_Witness ==
  /\ Len(log) > 0
  /\ IsCall(log[Len(log)], "fresh", "ok")
  /\ get_next_page(log[Len(log)].params) = JsFalse
  /\ DOMAIN log[Len(log)].query = {"country", "headline"}
  /\ log[Len(log)].query["country"] = "DE"

\* const proxycurlClient = new ProxycurlClient(apiKey): the cursor a call of
\* session s reads is the field of the one client.
CursorReadBy(s) == nextPageSearchPeopleUrl

\* C24: a call that completes for one session leaves the cursor that every
\* other session reads as it was.
C24_SessionsIsolated ==
  [][ (Len(log') > 0 /\ log' # log) =>
        \A s \in Sessions \ {log'[Len(log')].session} :
          CursorReadBy(s)' = CursorReadBy(s) ]_vars

NoNextPageCarried(entry) ==
  /\ entry.kind \in {"fresh", "continuation"}
  /\ entry.outcome = "ok"
  /\ entry.next \in {NULL, Undefined, ""}

\* C25: a successful search whose response carries no next page sets the
\* cursor to null, not to the URL it has just read, and a continuation that
\* comes right after it gets "No next page available" with no request.
C25_LastPageClearsCursor ==
  /\ \A k \in 1..Len(log) :
       NoNextPageCarried(log[k]) => log[k].after = NULL /\ log[k].after # log[k].sent
  /\ (Len(log) > 0 /\ NoneInFlight /\ NoNextPageCarried(log[Len(log)])) =>
       nextPageSearchPeopleUrl = NULL
  /\ (Len(log) = 2 /\ NoNextPageCarried(log[1]) /\ log[2].kind = "continuation") =>
       /\ log[2].outcome = "NoNextPage"
       /\ log[2].requests = 0

C25_Witness ==
  /\ Len(log) = 2
  /\ IsCall(log[1], "continuation", "ok")
  /\ log[1].sent = "urlA"
  /\ log[1].next = ""
  /\ IsCall(log[2], "continuation", "NoNextPage")

\* C26: a continuation asked for while the cursor is null is answered with a
\* thrown failure, as a failed request is, not with a result.
C26_NullCursorIsFailure ==
  \A k \in 1..Len(log) :
    log[k].outcome = "NoNextPage" => log[k].answer = "MCPError"

\* C28: under every interleaving of calls the cursor is null or a URL, and
\* a step that writes a URL to it is the completion of a search that
\* succeeded and writes the next page of that search's response.
C28_CursorFromSuccess ==
  [][ /\ nextPageSearchPeopleUrl' \in Urls \cup {NULL}
      /\ (/\ nextPageSearchPeopleUrl' # NULL
          /\ nextPageSearchPeopleUrl' # nextPageSearchPeopleUrl) =>
            /\ Len(log') > 0
            /\ log'[Len(log')].kind \in {"fresh", "continuation"}
            /\ log'[Len(log')].outcome = "ok"
            /\ log'[Len(log')].next = nextPageSearchPeopleUrl' ]_vars

C28_Witness ==
  /\ Len(log) > 0
  /\ IsCall(log[Len(log)], "continuation", "ok")
  /\ log[Len(log)].racedBy # {}
  /\ log[Len(log)].next = "urlB"
  /\ nextPageSearchPeopleUrl = "urlB"

Suspended(i) == pool[i].pc \in {"awaiting", "backoff"}

DelaysFor(n, e) == { calculateRetryDelay(n, OptionalStatus(e), r) : r \in Randoms }

\* C29: attempt n + 1 is issued only after the wait that follows attempt n,
\* and the duration of that wait is a value of calculateRetryDelay for
\* attempt number n and the status of the failure of attempt n.
C29_WaitBetweenAttempts ==
  /\ pc # "idle" => attempts = waits + 1
  /\ pc = "backoff" =>
       /\ attempts = attempt
       /\ Len(outcomes) = attempt
       /\ delay \in DelaysFor(attempt, outcomes[attempt].error)
  /\ (pc = "awaiting" /\ attempt > 1) =>
       /\ waits = attempt - 1
       /\ Len(outcomes) = attempt - 1
       /\ delay \in DelaysFor(attempt - 1, outcomes[attempt - 1].error)

C29_Witness ==
  /\ pc = "awaiting"
  /\ attempt = 3
  /\ outcomes[1].error = HttpErrorNoDescription(500)
  /\ outcomes[2].error = HttpErrorNoDescription(429)
  /\ delay \in DelaysFor(2, HttpErrorNoDescription(429))

\* base * 2^(n-1) with the jitter of at most 12.5% and the cap, for the
\* multiplier of failure e: 5000 for a 429, 1000 for every other failure.
MultiplierOf(e) == IF e.hasResponse /\ e.status = 429 THEN 5000 ELSE 1000

WithinJitterOf(d, n, e) ==
  /\ Min(Ms(30000), JitterLow(SpecBase(n, MultiplierOf(e)))) <= d
  /\ d <= Min(Ms(30000), JitterHigh(SpecBase(n, MultiplierOf(e))))

\* C30: the failure of each attempt is classified on its own: when attempts
\* 1..k-1 fail with retryable failures and attempt k <= maxRetries fails with
\* a non-retryable one, the invocation ends at attempt k as a non-retryable
\* failure; and each wait uses the multiplier of the failure just before it.
C30_ClassPerAttempt ==
  /\ \A k \in 1..Len(outcomes) :
       (/\ k <= maxRetries
        /\ \A j \in 1..(k - 1) : ~outcomes[j].ok /\ RetryableOutcome(outcomes[j].error)
        /\ ~outcomes[k].ok
        /\ ~RetryableOutcome(outcomes[k].error)) =>
          /\ pc = "FailedNonRetryable"
          /\ Len(outcomes) = k
          /\ attempts = k
          /\ thrown = outcomes[k].error
  /\ pc = "backoff" => WithinJitterOf(delay, attempt, outcomes[Len(outcomes)].error)

C30_Witness ==
  /\ pc = "FailedNonRetryable"
  /\ maxRetries = 3
  /\ Len(outcomes) = 3
  /\ outcomes[1].error = HttpErrorNoDescription(429)
  /\ outcomes[2].error = HttpErrorNoDescription(500)
  /\ outcomes[3].error = HttpErrorNoDescription(404)
  /\ WithinJitterOf(delay, 2, HttpErrorNoDescription(500))

\* C31: in every terminal state of makeRequestWithRetry the number of
\* backoff waits is the number of attempts minus one: no wait follows the
\* final attempt, and with maxRetries = 0 there is one attempt and no wait.
C31_WaitsOneLessThanAttempts ==
  pc \in Terminal =>
    /\ waits = attempts - 1
    /\ attempts = Len(outcomes)
    /\ maxRetries = 0 => attempts = 1 /\ waits = 0

C31_Witness ==
  /\ pc = "FailedExhausted"
  /\ maxRetries = 2
  /\ attempts = 3
  /\ waits = 2

StoredPage(entry) ==
  /\ entry.kind \in {"fresh", "continuation"}
  /\ entry.outcome = "ok"
  /\ entry.next \in Urls

\* C32: with calls that do not overlap, after each call the cursor is
\* non-null exactly when the last call was a search that succeeded with a
\* next page, and it is then that next page; a call that issues no request
\* (a reset, a continuation on a null cursor) leaves or makes it null, and a
\* continuation after a stored page does issue a request, to that page.
C32_CursorIsLastStoredPage ==
  NoneInFlight =>
    /\ Len(log) = 0 => nextPageSearchPeopleUrl = NULL
    /\ Len(log) > 0 =>
         /\ nextPageSearchPeopleUrl # NULL <=> StoredPage(log[Len(log)])
         /\ StoredPage(log[Len(log)]) => nextPageSearchPeopleUrl = log[Len(log)].next
         /\ log[Len(log)].requests = 0 => nextPageSearchPeopleUrl = NULL
    /\ (Len(log) = 2 /\ StoredPage(log[1]) /\ log[2].kind = "continuation") =>
         log[2].requests = 1 /\ log[2].sent = log[1].next

C32_Witness ==
  /\ NoneInFlight
  /\ Len(log) = 2
  /\ IsCall(log[1], "fresh", "ok") /\ log[1].next = "urlA"
  /\ IsCall(log[2], "continuation", "ok") /\ log[2].next = "urlB"
  /\ log[2].sent = "urlA"
  /\ nextPageSearchPeopleUrl = "urlB"
  /\ log[2].racedBy = {}

\* C33: a fresh search or a continuation that was in flight when
\* reset_search_state ran stores no cursor when it completes.
C33_ResetOutlastsInFlight ==
  \A k \in 1..Len(log) :
    (log[k].kind \in {"fresh", "continuation"} /\ "reset" \in log[k].racedBy) =>
      log[k].after = NULL

\* C34: the URL named in the failure of a continuation, which is the cursor
\* that the failure clears, is the URL the continuation requested, under
\* every interleaving with other calls.
C34_FailureNamesRequestedUrl ==
  \A k \in 1..Len(log) :
    IsCall(log[k], "continuation", "error") => log[k].oldUrl = log[k].sent

\* C36: a call is a continuation only when get_next_page is the boolean
\* true; with false, the string "true" or no get_next_page it is a fresh
\* search, which resets the cursor before its request and does not send
\* get_next_page as a query parameter.
C36_OnlyTrueContinues ==
  /\ \A c \in Calls :
       /\ call[c].pc = "contAwait" => get_next_page(call[c].params) = JsTrue
       /\ call[c].pc = "freshAwait" =>
            /\ get_next_page(call[c].params) # JsTrue
            /\ nextPageSearchPeopleUrl = NULL
            /\ "get_next_page" \notin DOMAIN call[c].request.query
  /\ (Len(log) > 0 /\ log[Len(log)].kind = "continuation") =>
       get_next_page(log[Len(log)].params) = JsTrue
  /\ (Len(log) > 0 /\ log[Len(log)].kind = "fresh") =>
       /\ get_next_page(log[Len(log)].params) \in {JsFalse, JsStringTrue, Undefined}
       /\ log[Len(log)].mid = NULL
       /\ "get_next_page" \notin DOMAIN log[Len(log)].query

C36_Witness ==
  /\ Len(log) = 2
  /\ StoredPage(log[1])
  /\ IsCall(log[2], "fresh", "error")
  /\ get_next_page(log[2].params) = JsStringTrue
  /\ log[2].before = "urlA"
  /\ log[2].mid = NULL

\* C40: for one failure class the delay grows with the attempt number
\* whatever the jitter: every delay of attempt n + 1 is at least the delay of
\* attempt n, and greater when it is below the cap of 30000 ms.
C40_DelayGrows ==
  dReturned =>
    \A r \in Randoms :
      /\ calculateRetryDelay(dAttempt + 1, dStatus, r) >= dDelay
      /\ calculateRetryDelay(dAttempt + 1, dStatus, r) < Ms(MaxDelayMs) =>
           calculateRetryDelay(dAttempt + 1, dStatus, r) > dDelay

C40_Witness ==
  /\ dReturned
  /\ dAttempt = 2
  /\ dStatus = <<429>>
  /\ dRandom = JitterSteps - 1
  /\ calculateRetryDelay(3, dStatus, 0) > dDelay
  /\ calculateRetryDelay(3, dStatus, 0) < Ms(MaxDelayMs)


\* The table of error codes, written out status by status.
ExpectedCode(st) ==
  IF st = 0 THEN "INTERNAL"
  ELSE IF st \in {400, 422} THEN "INVALID_ARGUMENT"
  ELSE IF st = 401 THEN "UNAUTHENTICATED"
  ELSE IF st = 403 THEN "PERMISSION_DENIED"
  ELSE IF st = 404 THEN "NOT_FOUND"
  ELSE IF st = 429 THEN "RESOURCE_EXHAUSTED"
  ELSE IF st < 500 THEN "UNKNOWN"
  ELSE "INTERNAL"

\* C37: getMcpErrorCode returns a code for every status: INTERNAL for a
\* missing status and for every status >= 500, INVALID_ARGUMENT for 400 and
\* 422, UNAUTHENTICATED for 401, PERMISSION_DENIED for 403, NOT_FOUND for 404,
\* RESOURCE_EXHAUSTED for 429 and UNKNOWN for every other status below 500.
C37_StatusTable ==
  mcpCode # "pending" => mcpCode = ExpectedCode(statusArg)

C37_Witness == statusArg = 422 /\ mcpCode = "INVALID_ARGUMENT"

IsOtherTool(entry) == entry.kind \in OtherTools

\* C35: a call of get_person_profile, get_company_profile,
\* lookup_profile_by_person_name, search_employees or
\* advanced_search_companies, successful or failed, leaves the cursor as it
\* was: the cursor is the same before the call, while its request is in
\* flight and after it.
C35_OtherToolsKeepCursor ==
  /\ \A c \in Calls :
       call[c].pc = "toolAwait" => nextPageSearchPeopleUrl = call[c].before
  /\ \A k \in 1..Len(log) :
       IsOtherTool(log[k]) =>
         /\ log[k].mid = log[k].before
         /\ log[k].after = log[k].before
  /\ (NoneInFlight /\ Len(log) > 0 /\ IsOtherTool(log[Len(log)])) =>
       nextPageSearchPeopleUrl = log[Len(log)].before

C35_Witness ==
  /\ Len(log) = 2
  /\ IsCall(log[1], "fresh", "ok")
  /\ log[1].after = "urlA"
  /\ log[2].kind = "advanced_search_companies"
  /\ log[2].outcome = "error"
  /\ log[2].requests = 1
  /\ nextPageSearchPeopleUrl = "urlA"

\* C38: a lookup_profile_by_person_name call without first_name or without
\* company_domain fails with INVALID_ARGUMENT and issues no request, and the
\* code the caller receives for a failed lookup is the code raised where the
\* lookup failed.
C38_LookupKeepsCode ==
  \A k \in 1..Len(log) :
    IsCall(log[k], LookupTool, "error") =>
      /\ log[k].report.code = log[k].raised
      /\ log[k].requests = 0 => log[k].report.code = "INVALID_ARGUMENT"

\* C39: advancedSearchCompanies sends page_size = limit and no limit field
\* when the filters carry a limit and no page_size, sends page_size 5 when
\* they carry neither, and leaves the caller's filters as they were.
C39_LimitBecomesPageSize ==
  \A c \in Calls :
    (call[c].pc = "toolAwait" /\ call[c].tool = CompaniesTool) =>
      LET filters == call[c].params
          sentParams == call[c].request.query
      IN /\ ("limit" \in DOMAIN filters /\ "page_size" \notin DOMAIN filters) =>
              /\ sentParams["page_size"] = filters["limit"]
              /\ "limit" \notin DOMAIN sentParams
         /\ ("limit" \notin DOMAIN filters /\ "page_size" \notin DOMAIN filters) =>
              sentParams["page_size"] = DefaultPageSize
====
